---- MODULE Spec2Model ----
(***************************************************************************)
(* Employee directory builder: the two Streamlit scripts of the repository *)
(* (Employee_List_Formatter.py, and the older app.py kept beside it).      *)
(* A Python str is a sequence of one-character strings; a parsed JSON      *)
(* value is a tagged record; a call that can raise returns a result record *)
(* that is either Ok(value) or Raise(exception).                           *)
(***************************************************************************)
EXTENDS Integers, Sequences, FiniteSets, TLC

VARIABLES script, pc, arg, ret, raw, pretty, show_table, payload, entries,
          directory_md, ui

vars == <<script, pc, arg, ret, raw, pretty, show_table, payload, entries,
          directory_md, ui>>

\* The two scripts of the repository.
MAIN == "Employee_List_Formatter.py"
APP == "app.py"
Scripts == {MAIN, APP}

(***************************************************************************)
(* Python values (what json.loads returns) and call results.               *)
(***************************************************************************)
None == [t |-> "null"]
Str(s) == [t |-> "str", s |-> s]
Num(n) == [t |-> "num", n |-> n]
Bool(b) == [t |-> "bool", b |-> b]
List(xs) == [t |-> "arr", xs |-> xs]
\* A dict is its items in insertion order, each [k |-> key, v |-> value].
Dict(items) == [t |-> "obj", items |-> items]
\* a name not yet assigned, and a name bound to a value
Unset == [t |-> "unset"]
Bound(v) == [t |-> "bound", v |-> v]

Ok(v) == [ok |-> TRUE, v |-> v]
Raise(exc) == [ok |-> FALSE, exc |-> exc]

\* bool(v)
Truthy(v) ==
  CASE v.t = "null" -> FALSE
    [] v.t = "str" -> v.s # <<>>
    [] v.t = "num" -> v.n # 0
    [] v.t = "bool" -> v.b
    [] v.t = "arr" -> v.xs # <<>>
    [] v.t = "obj" -> v.items # <<>>

\* v or d
Or(v, d) == IF Truthy(v) THEN v ELSE d

\* v.get(k, default): only a dict has the method
Get(v, k, default) ==
  IF v.t # "obj" THEN Raise("AttributeError")
  ELSE LET hit == {i \in 1..Len(v.items) : v.items[i].k = k}
       IN  IF hit = {} THEN Ok(default)
           ELSE Ok(v.items[CHOOSE i \in hit : \A j \in hit : j <= i].v)

\* for x in v: a list yields its elements, a str its characters, a dict its keys
Iter(v) ==
  CASE v.t = "arr" -> Ok(v.xs)
    [] v.t = "str" -> Ok([i \in 1..Len(v.s) |-> Str(<<v.s[i]>>)])
    [] v.t = "obj" -> Ok([i \in 1..Len(v.items) |-> Str(v.items[i].k)])
    [] OTHER -> Raise("TypeError")

\* r, then F on its value: an exception raised by r is raised by the whole
Try(r, F(_)) == IF r.ok THEN F(r.v) ELSE r

(***************************************************************************)
(* Characters and str methods.                                             *)
(***************************************************************************)
DigitChars == {"0", "1", "2", "3", "4", "5", "6", "7", "8", "9"}
SpaceChars == {" ", "\t", "\n", "\r"}
NL == "\n"

IsDigit(c) == c \in DigitChars

\* s.strip()
Strip(s) ==
  LET keep == {i \in 1..Len(s) : s[i] \notin SpaceChars}
  IN  IF keep = {} THEN <<>>
      ELSE SubSeq(s, CHOOSE i \in keep : \A j \in keep : i <= j,
                     CHOOSE i \in keep : \A j \in keep : j <= i)

\* s.rstrip()
RStrip(s) ==
  LET keep == {i \in 1..Len(s) : s[i] \notin SpaceChars}
  IN  IF keep = {} THEN <<>>
      ELSE SubSeq(s, 1, CHOOSE i \in keep : \A j \in keep : j <= i)

\* x.strip() on a value: only a str has the method
strip(x) == IF x.t = "str" THEN Ok(Strip(x.s)) ELSE Raise("AttributeError")

\* re.sub(pattern, repl, x) on a value: only a str (or bytes) is accepted
sub_nondigits(x) ==
  IF x.t = "str" THEN Ok(SelectSeq(x.s, IsDigit)) ELSE Raise("TypeError")

(***************************************************************************)
(* Employee_List_Formatter.py: phone formatting.                           *)
(***************************************************************************)
\* re.sub(r"\D+", "", s or "")
digits_only(s) == sub_nondigits(Or(s, Str(<<>>)))

\* the 11-digit branch formats d without dropping the leading 1
format_us_phone_keeps_1(raw_) ==
  Try(digits_only(raw_), LAMBDA d :
    IF Len(d) = 10
    THEN Ok(<<"(">> \o SubSeq(d, 1, 3) \o <<")", " ">> \o SubSeq(d, 4, 6)
              \o <<"-">> \o SubSeq(d, 7, 10))
    ELSE IF Len(d) = 11 /\ d[1] = "1"
    THEN Ok(<<"(">> \o SubSeq(d, 1, 3) \o <<")", " ">> \o SubSeq(d, 4, 6)
              \o <<"-">> \o SubSeq(d, 7, 10))
    ELSE strip(Or(raw_, Str(<<>>))))

\* f"({d[0:3]}) {d[3:6]}-{d[6:10]}", in the second branch after d = d[1:]
format_us_phone(raw_) ==
  Try(digits_only(raw_), LAMBDA d :
    IF Len(d) = 10
    THEN Ok(<<"(">> \o SubSeq(d, 1, 3) \o <<")", " ">> \o SubSeq(d, 4, 6)
              \o <<"-">> \o SubSeq(d, 7, 10))
    ELSE IF Len(d) = 11 /\ d[1] = "1"
    THEN Ok(<<"(">> \o SubSeq(Tail(d), 1, 3) \o <<")", " ">>
              \o SubSeq(Tail(d), 4, 6) \o <<"-">> \o SubSeq(Tail(d), 7, 10))
    ELSE strip(Or(raw_, Str(<<>>))))

(***************************************************************************)
(* app.py: phone formatting.                                               *)
(***************************************************************************)
app_digits_only(s) == sub_nondigits(Or(s, Str(<<>>)))

\* the fallback is `raw or ""`: the argument as it came, not stripped
app_format_us_phone(raw_) ==
  Try(app_digits_only(raw_), LAMBDA d :
    IF Len(d) = 10
    THEN Ok(<<"(">> \o SubSeq(d, 1, 3) \o <<")", " ">> \o SubSeq(d, 4, 6)
              \o <<"-">> \o SubSeq(d, 7, 10))
    ELSE IF Len(d) = 11 /\ d[1] = "1"
    THEN Ok(<<"(">> \o SubSeq(Tail(d), 1, 3) \o <<")", " ">>
              \o SubSeq(Tail(d), 4, 6) \o <<"-">> \o SubSeq(Tail(d), 7, 10))
    ELSE Ok(Or(raw_, Str(<<>>)).s))

(***************************************************************************)
(* SpecPhone: one call of format_us_phone, of either script, on a phone    *)
(* text: up to MaxDigits digits, punctuated and padded, or None.           *)
(***************************************************************************)
MaxDigits == 12
PhoneDigits == {"1", "5"}
PhonePrefixes == {<<>>, <<" ">>, <<"+">>}
PhoneSeparators == {<<>>, <<"-">>}
PhoneSuffixes == {<<>>, <<" ">>, <<"x">>}

\* the digits d with sep before the last 4, 7 and 10 of them: 1-555-123-4567
RECURSIVE Punctuate(_, _)
Punctuate(d, sep) ==
  IF d = <<>> THEN <<>>
  ELSE <<Head(d)>> \o (IF Len(d) - 1 \in {4, 7, 10} THEN sep ELSE <<>>)
         \o Punctuate(Tail(d), sep)

Idle ==
  /\ raw = Unset /\ pretty = FALSE /\ show_table = FALSE /\ payload = Unset
  /\ entries = Unset /\ directory_md = Unset /\ ui = <<>>

InitPhone ==
  /\ script \in Scripts
  /\ pc = "call"
  /\ \/ arg = None
     \/ \E n \in 0..MaxDigits :
          \E d \in [1..n -> PhoneDigits], pre \in PhonePrefixes,
             sep \in PhoneSeparators, suf \in PhoneSuffixes :
            arg = Str(pre \o Punctuate(d, sep) \o suf)
  /\ ret = Unset
  /\ Idle

CallFormatUsPhone ==
  /\ pc = "call"
  /\ ret' = IF script = MAIN THEN format_us_phone(arg)
            ELSE app_format_us_phone(arg)
  /\ pc' = "return"
  /\ UNCHANGED <<script, arg, raw, pretty, show_table, payload, entries,
                 directory_md, ui>>

NextPhone == CallFormatUsPhone

SpecPhone == InitPhone /\ [][NextPhone]_vars

\* what the claims call the digits of a text, and the text of None
DigitsOf(v) == IF v.t = "str" THEN SelectSeq(v.s, IsDigit) ELSE <<>>
TextOf(v) == IF v.t = "str" THEN v.s ELSE <<>>
FormatUsPhone(v) ==
  IF script = MAIN THEN format_us_phone(v) ELSE app_format_us_phone(v)

\* C1: a text with exactly 10 digits D formats to "(D[0:3]) D[3:6]-D[6:10]",
\* and a text with 11 digits the first of which is 1 formats to what its
\* digits without the leading 1 format to.
C1_FormattingBranch ==
  pc = "return" =>
    LET D == DigitsOf(arg)
    IN  /\ Len(D) = 10 =>
             ret = Ok(<<"(", D[1], D[2], D[3], ")", " ", D[4], D[5], D[6], "-",
                        D[7], D[8], D[9], D[10]>>)
        /\ (Len(D) = 11 /\ D[1] = "1") =>
             /\ ret = FormatUsPhone(Str(Tail(D)))
             /\ ret = Ok(<<"(", D[2], D[3], D[4], ")", " ", D[5], D[6], D[7],
                           "-", D[8], D[9], D[10], D[11]>>)

\* an 11-digit text with the leading 1, punctuated and padded, was formatted
C1_Witness ==
  /\ pc = "return"
  /\ arg = Str(<<"+", "1", "-", "5", "1", "5", "-", "1", "1", "5", "-", "5",
                 "5", "1", "1", " ">>)
  /\ ret = Ok(<<"(", "5", "1", "5", ")", " ", "1", "1", "5", "-", "5", "5",
                "1", "1">>)

\* the fallback case of a call: neither 10 digits nor 11 with a leading 1
IsFallback(v) ==
  LET D == DigitsOf(v)
  IN  Len(D) # 10 /\ ~(Len(D) = 11 /\ D[1] = "1")

\* C2: in the fallback case the call does not raise and returns the input
\* with its leading and trailing whitespace trimmed, otherwise unchanged.
C2_FallbackTrimmed ==
  (pc = "return" /\ IsFallback(arg)) => ret = Ok(Strip(TextOf(arg)))

\* C2 as Employee_List_Formatter.py alone meets it.
C2_FallbackTrimmedMain ==
  (script = MAIN /\ pc = "return" /\ IsFallback(arg)) =>
    ret = Ok(Strip(TextOf(arg)))

(***************************************************************************)
(* The keys of the payload.                                                *)
(***************************************************************************)
K_department_employees == <<"d", "e", "p", "a", "r", "t", "m", "e", "n", "t",
    "_", "e", "m", "p", "l", "o", "y", "e", "e", "s">>
K_employees == <<"e", "m", "p", "l", "o", "y", "e", "e", "s">>
K_contact_name == <<"c", "o", "n", "t", "a", "c", "t", "_", "n", "a", "m",
    "e">>
K_employee_position == <<"e", "m", "p", "l", "o", "y", "e", "e", "_", "p",
    "o", "s", "i", "t", "i", "o", "n">>
K_office_number == <<"o", "f", "f", "i", "c", "e", "_", "n", "u", "m", "b",
    "e", "r">>
K_email_address == <<"e", "m", "a", "i", "l", "_", "a", "d", "d", "r", "e",
    "s", "s">>

\* the identity of an entry for deduplication
Key(e) == <<e.name, e.position, e.office_raw, e.email>>

(***************************************************************************)
(* Employee_List_Formatter.py: normalize, to_entries.                      *)
(***************************************************************************)
\* (s or "").strip(): a truthy value that is no str has no strip()
normalize(s) == strip(Or(s, Str(<<>>)))

\* the seen-set loop: `for e in entries` with seen and deduped so far
RECURSIVE deduped_loop(_, _, _)
deduped_loop(es, seen, out) ==
  IF es = <<>> THEN out
  ELSE IF Key(Head(es)) \in seen THEN deduped_loop(Tail(es), seen, out)
  ELSE deduped_loop(Tail(es), seen \cup {Key(Head(es))}, Append(out, Head(es)))

\* the key is built from the formatted office number, not the raw one
RECURSIVE deduped_by_fmt_loop(_, _, _)
deduped_by_fmt_loop(es, seen, out) ==
  LET e == Head(es)
      key == <<e.name, e.position, e.office_fmt, e.email>>
  IN  IF es = <<>> THEN out
      ELSE IF key \in seen THEN deduped_by_fmt_loop(Tail(es), seen, out)
      ELSE deduped_by_fmt_loop(Tail(es), seen \cup {key}, Append(out, e))

deduped_by_fmt(es) == deduped_by_fmt_loop(es, {}, <<>>)

\* a duplicate is deleted from the list being iterated, so that the element
\* after it is skipped
RECURSIVE deduped_in_place_loop(_, _, _)
deduped_in_place_loop(es, i, seen) ==
  IF i > Len(es) THEN es
  ELSE IF Key(es[i]) \in seen
       THEN deduped_in_place_loop(SubSeq(es, 1, i - 1) \o SubSeq(es, i + 1, Len(es)),
                                  i + 1, seen)
  ELSE deduped_in_place_loop(es, i + 1, seen \cup {Key(es[i])})

deduped_in_place(es) == deduped_in_place_loop(es, 1, {})

\* "Deduplicate exact duplicates while preserving order"
deduped(es) == deduped_loop(es, {}, <<>>)

\* the body of `for emp in employees`: the entry appended, none after
\* `continue`, or the exception raised
to_entries_emp(emp) ==
  Try(Try(Get(emp, K_contact_name, Str(<<>>)), normalize), LAMBDA name :
    IF name = <<>> THEN Ok(<<>>)
    ELSE
  Try(Try(Get(emp, K_employee_position, Str(<<>>)), normalize), LAMBDA position :
  Try(Try(Get(emp, K_office_number, Str(<<>>)), normalize), LAMBDA office_raw :
  Try(Try(Get(emp, K_email_address, Str(<<>>)), normalize), LAMBDA email :
  Try(format_us_phone(Str(office_raw)), LAMBDA office_fmt :
    Ok(<<[name |-> name, position |-> position, office_raw |-> office_raw,
          office_fmt |-> office_fmt, email |-> email]>>))))))

\* `for emp in employees`, appending to entries
RECURSIVE to_entries_employees(_, _)
to_entries_employees(employees, acc) ==
  IF employees = <<>> THEN Ok(acc)
  ELSE Try(to_entries_emp(Head(employees)), LAMBDA e :
         to_entries_employees(Tail(employees), acc \o e))

\* `for block in dept_emps`:
\* employees = (block or {}).get("employees", []) or []
RECURSIVE to_entries_blocks(_, _)
to_entries_blocks(blocks, acc) ==
  IF blocks = <<>> THEN Ok(acc)
  ELSE
  Try(Get(Or(Head(blocks), Dict(<<>>)), K_employees, List(<<>>)), LAMBDA g :
  Try(Iter(Or(g, List(<<>>))), LAMBDA employees :
  Try(to_entries_employees(employees, acc), LAMBDA entries_ :
    to_entries_blocks(Tail(blocks), entries_))))

\* dept_emps = payload.get("department_employees", []) or []
to_entries(payload_) ==
  Try(Get(payload_, K_department_employees, List(<<>>)), LAMBDA g :
  Try(Iter(Or(g, List(<<>>))), LAMBDA dept_emps :
  Try(to_entries_blocks(dept_emps, <<>>), LAMBDA entries_ :
    Ok(deduped(entries_)))))

(***************************************************************************)
(* app.py: normalize_*, to_directory_entries.                              *)
(***************************************************************************)
normalize_name(name) == strip(Or(name, Str(<<>>)))

normalize_position(pos) == strip(Or(pos, Str(<<>>)))

\* e = (email or "").strip(); return e if e else ""
normalize_email(email) ==
  Try(strip(Or(email, Str(<<>>))), LAMBDA e : Ok(IF e # <<>> THEN e ELSE <<>>))

RECURSIVE app_deduped_loop(_, _, _)
app_deduped_loop(xs, seen, out) ==
  IF xs = <<>> THEN out
  ELSE IF Key(Head(xs)) \in seen THEN app_deduped_loop(Tail(xs), seen, out)
  ELSE app_deduped_loop(Tail(xs), seen \cup {Key(Head(xs))},
                        Append(out, Head(xs)))

\* "dedupe exact duplicates while preserving first occurrence"
app_deduped(xs) == app_deduped_loop(xs, {}, <<>>)

\* (e.get("office_number", "") or "").strip()
app_office(v) == strip(Or(v, Str(<<>>)))

\* the body of `for e in employees`: all four fields are read and cleaned
\* before the name is tested
to_directory_entries_emp(e) ==
  Try(Try(Get(e, K_contact_name, Str(<<>>)), normalize_name), LAMBDA name :
  Try(Try(Get(e, K_employee_position, Str(<<>>)), normalize_position),
      LAMBDA position :
  Try(Try(Get(e, K_office_number, Str(<<>>)), app_office), LAMBDA office :
  Try(Try(Get(e, K_email_address, Str(<<>>)), normalize_email), LAMBDA email :
    IF name = <<>> THEN Ok(<<>>)
    ELSE
  Try(app_format_us_phone(Str(office)), LAMBDA office_fmt :
    Ok(<<[name |-> name, position |-> position, office_raw |-> office,
          office_fmt |-> office_fmt, email |-> email]>>))))))

RECURSIVE to_directory_entries_employees(_, _)
to_directory_entries_employees(employees, acc) ==
  IF employees = <<>> THEN Ok(acc)
  ELSE Try(to_directory_entries_emp(Head(employees)), LAMBDA e :
         to_directory_entries_employees(Tail(employees), acc \o e))

RECURSIVE to_directory_entries_blocks(_, _)
to_directory_entries_blocks(blocks, acc) ==
  IF blocks = <<>> THEN Ok(acc)
  ELSE
  Try(Get(Or(Head(blocks), Dict(<<>>)), K_employees, List(<<>>)), LAMBDA g :
  Try(Iter(Or(g, List(<<>>))), LAMBDA employees :
  Try(to_directory_entries_employees(employees, acc), LAMBDA entries_ :
    to_directory_entries_blocks(Tail(blocks), entries_))))

to_directory_entries(payload_) ==
  Try(Get(payload_, K_department_employees, List(<<>>)), LAMBDA g :
  Try(Iter(Or(g, List(<<>>))), LAMBDA dept_emps :
  Try(to_directory_entries_blocks(dept_emps, <<>>), LAMBDA entries_ :
    Ok(app_deduped(entries_)))))

(***************************************************************************)
(* SpecEntries: one call of to_entries (to_directory_entries in app.py) on *)
(* a parsed document, then the deduplication step applied once more to the *)
(* list it returned.  The documents: up to MaxEmployees employees with     *)
(* string fields in two department blocks; one employee whose fields hold  *)
(* any JSON value, alone or beside a well-formed one; and documents whose  *)
(* top level, blocks or employees are not of the expected shape.           *)
(***************************************************************************)
MaxEmployees == 3

Missing == [t |-> "missing"]
Field(k, v) == IF v = Missing THEN <<>> ELSE <<[k |-> k, v |-> v]>>
Employee(n, p, o, e) ==
  Dict(Field(K_contact_name, n) \o Field(K_employee_position, p)
       \o Field(K_office_number, o) \o Field(K_email_address, e))
Block(emps) == Dict(Field(K_employees, emps))
Payload(blocks) == Dict(Field(K_department_employees, blocks))

Ann == Employee(Str(<<"A">>), Str(<<"M">>), Str(<<"5", "5", "5", "1", "2",
    "3", "4", "5", "6", "7">>), Str(<<"e">>))
EmployeeSamples ==
  { Ann,
    Employee(Str(<<" ", "A", " ">>), Str(<<"M">>), Str(<<"5", "5", "5", "1",
        "2", "3", "4", "5", "6", "7">>), Str(<<"e">>)),
    Employee(Str(<<"A">>), Str(<<"M">>), Str(<<"5", "5", "5", "-", "1", "2",
        "3", "-", "4", "5", "6", "7">>), Str(<<"e">>)),
    Employee(Str(<<"A">>), Missing, Str(<<"5", "5", "5", "1", "2", "3", "4",
        "5", "6", "7">>), Str(<<"e">>)),
    Employee(Str(<<"A">>), Str(<<"M">>), Str(<<"5", "5", "5", "1", "2", "3",
        "4", "5", "6", "7">>), None),
    Employee(Str(<<"B">>), Str(<<"M">>), Str(<<"5", "5", "5", "1", "2", "3",
        "4", "5", "6", "7">>), Str(<<"e">>)),
    Employee(Str(<<" ">>), Str(<<"M">>), Str(<<"5", "5", "5", "1", "2", "3",
        "4", "5", "6", "7">>), Str(<<"e">>)) }

\* the employees es in two blocks, the first k of them in the first
TwoBlocks(es, k) ==
  Payload(List(<<Block(List(SubSeq(es, 1, k))),
                 Block(List(SubSeq(es, k + 1, Len(es))))>>))

NameValues ==
  { Missing, None, Str(<<>>), Str(<<" ">>), Str(<<" ", "A", " ">>), Num(0),
      Num(5),
    Bool(TRUE), Bool(FALSE), List(<<>>), List(<<Str(<<"A">>)>>), Dict(<<>>),
    Dict(<<[k |-> <<"k">>, v |-> None]>>) }
OtherValues ==
  {Missing, None, Str(<<" ", "m", " ">>), Num(5), Bool(FALSE),
      List(<<Num(1)>>)}

\* an employee alone, before, and in the block after a well-formed employee
Neighbours(emp, good) ==
  { Payload(List(<<Block(List(<<emp>>))>>)),
    Payload(List(<<Block(List(<<emp, good>>))>>)),
    Payload(List(<<Block(List(<<good>>)), Block(List(<<emp>>))>>)) }

ShapeValues ==
  { Missing, None, Num(0), Num(5), Str(<<>>), Str(<<"a", "b">>), Bool(TRUE),
    Bool(FALSE), List(<<>>), Dict(<<>>),
    Dict(<<[k |-> <<"a">>, v |-> Num(1)]>>), Dict(<<[k |-> <<>>,
        v |-> Num(1)]>>) }

ShapePayloads ==
  {None, Num(5), Str(<<"a", "b">>), Bool(TRUE), List(<<>>), List(<<Num(1)>>)}
  \cup {Payload(v) : v \in ShapeValues}
  \cup UNION {{Payload(List(<<b>>)), Payload(List(<<b, Block(List(<<Ann>>))>>))} :
                b \in {None, Num(5), Str(<<"x">>), List(<<>>), Dict(<<>>)}
                      \cup {Block(v) : v \in ShapeValues}}
  \cup {Payload(List(<<Block(List(<<x, Ann>>))>>)) :
          x \in {None, Num(5), Str(<<"x">>), List(<<>>), Dict(<<>>)}}

InitEntries ==
  /\ script \in Scripts
  /\ pc = "call"
  /\ \/ \E n \in 0..MaxEmployees :
          \E es \in [1..n -> EmployeeSamples], k \in 0..n :
            arg = TwoBlocks(es, k)
     \/ \E n \in NameValues, p \in OtherValues, o \in OtherValues,
           e \in OtherValues :
          arg \in Neighbours(Employee(n, p, o, e), Ann)
     \/ arg \in ShapePayloads
  /\ ret = Unset
  /\ Idle

CallToEntries ==
  /\ pc = "call"
  /\ ret' = IF script = MAIN THEN to_entries(arg) ELSE to_directory_entries(arg)
  /\ pc' = "return"
  /\ UNCHANGED <<script, arg, raw, pretty, show_table, payload, entries,
                 directory_md, ui>>

\* the seen-set loop run on the list the call returned
Rededupe ==
  /\ pc = "return"
  /\ ret.ok
  /\ entries' = Bound(IF script = MAIN THEN deduped(ret.v)
                       ELSE app_deduped(ret.v))
  /\ pc' = "rededuped"
  /\ UNCHANGED <<script, arg, ret, raw, pretty, show_table, payload,
                 directory_md, ui>>

NextEntries == CallToEntries \/ Rededupe

SpecEntries == InitEntries /\ [][NextEntries]_vars

(***************************************************************************)
(* Rendering.                                                              *)
(***************************************************************************)
\* "\n".join(lines)
RECURSIVE Join(_)
Join(lines) ==
  IF lines = <<>> THEN <<>>
  ELSE IF Len(lines) = 1 THEN Head(lines)
  ELSE Head(lines) \o <<NL>> \o Join(Tail(lines))

\* re.sub(r"\n{3,}", "\n\n", s): of a run of three or more newlines the
\* first two stay
CollapseNewlines(s) ==
  LET third(i) == i > 2 /\ s[i] = NL /\ s[i - 1] = NL /\ s[i - 2] = NL
      marked == [i \in 1..Len(s) |-> <<s[i], third(i)>>]
      stays(x) == ~x[2]
      kept == SelectSeq(marked, stays)
  IN  [i \in 1..Len(kept) |-> kept[i][1]]

HeaderLine == <<"#", "#", " ", "E", "m", "p", "l", "o", "y", "e", "e", " ",
    "P", "h", "o", "n", "e", " ", "N", "u", "m", "b", "e", "r", " ", "D",
    "i", "r", "e", "c", "t", "o", "r", "y">>

\* the lines of one entry in Employee_List_Formatter.py
render_directory_entry(e) ==
  <<<<" ", " ", " ", " ">> \o e.name>>
  \o (IF e.position # <<>> THEN <<e.position>> ELSE <<>>)
  \o (IF e.office_fmt # <<>> THEN <<<<"O", "f", "f", "i", "c", "e", ":",
      " ">> \o e.office_fmt>> ELSE <<>>)
  \o (IF e.email # <<>> THEN <<<<"E", "m", "a", "i", "l", ":",
      " ">> \o e.email>> ELSE <<>>)
  \o <<<<>>>>

RECURSIVE render_directory_lines(_)
render_directory_lines(es) ==
  IF es = <<>> THEN <<>>
  ELSE render_directory_entry(Head(es)) \o render_directory_lines(Tail(es))

\* the text is not stripped at its end before the newline is added
render_directory_no_rstrip(es) ==
  CollapseNewlines(Join(<<HeaderLine, <<>>>> \o render_directory_lines(es)))
    \o <<NL>>

render_directory(es) ==
  RStrip(CollapseNewlines(Join(<<HeaderLine, <<>>>>
                               \o render_directory_lines(es)))) \o <<NL>>

\* the lines of one entry in app.py: the position line is appended even when
\* the position is empty
render_directory_markdown_entry(e) ==
  <<<<" ", " ", " ", " ">> \o e.name>>
  \o <<IF e.position # <<>> THEN e.position ELSE <<>>>>
  \o (IF e.office_fmt # <<>> THEN <<<<"O", "f", "f", "i", "c", "e", ":",
      " ">> \o e.office_fmt>> ELSE <<>>)
  \o (IF e.email # <<>> THEN <<<<"E", "m", "a", "i", "l", ":",
      " ">> \o e.email>> ELSE <<>>)
  \o <<<<>>>>

RECURSIVE render_directory_markdown_lines(_)
render_directory_markdown_lines(es) ==
  IF es = <<>> THEN <<>>
  ELSE render_directory_markdown_entry(Head(es))
         \o render_directory_markdown_lines(Tail(es))

\* no line is None, so `[ln for ln in lines if ln is not None]` is lines
render_directory_markdown(es) ==
  RStrip(CollapseNewlines(Join(<<HeaderLine \o <<NL>>>>
                               \o render_directory_markdown_lines(es))))
    \o <<NL>>

(***************************************************************************)
(* SpecRender: one call of the renderer of either script on a list of up   *)
(* to MaxEntries entries as to_entries builds them: a name that is not     *)
(* empty, every field stripped, the office number formatted.  A field may  *)
(* hold newlines of its own.                                               *)
(***************************************************************************)
MaxEntries == 2

RenderNames == {<<"A">>, <<"A", "\n", "\n", "\n", "\n", "B">>}
RenderPositions == {<<>>, <<"M">>}
RenderOffices == {<<>>, <<"5", "5", "5", "1", "2", "3", "4", "5", "6", "7">>}
RenderEmails == {<<>>, <<"e", "\n", "\n", "\n", "f">>}

EntrySamples(s) ==
  {[name |-> n, position |-> p, office_raw |-> o,
    office_fmt |-> (IF s = MAIN THEN format_us_phone(Str(o))
                    ELSE app_format_us_phone(Str(o))).v,
    email |-> e] :
     n \in RenderNames, p \in RenderPositions, o \in RenderOffices,
     e \in RenderEmails}

EntryLists(s) == UNION {[1..n -> EntrySamples(s)] : n \in 1..MaxEntries}

InitRender ==
  /\ script \in Scripts
  /\ pc = "call"
  /\ arg \in EntryLists(script)
  /\ ret = Unset
  /\ Idle

CallRender ==
  /\ pc = "call"
  /\ ret' = Ok(IF script = MAIN THEN render_directory(arg)
               ELSE render_directory_markdown(arg))
  /\ pc' = "return"
  /\ UNCHANGED <<script, arg, raw, pretty, show_table, payload, entries,
                 directory_md, ui>>

NextRender == CallRender

SpecRender == InitRender /\ [][NextRender]_vars

(***************************************************************************)
(* What the claims about extraction speak of, read off the document.       *)
(***************************************************************************)
ToEntries(p) ==
  IF script = MAIN THEN to_entries(p) ELSE to_directory_entries(p)

\* the value a JSON object holds under key k, Missing when it has none
LookUp(d, k) ==
  LET hit == {i \in 1..Len(d.items) : d.items[i].k = k}
  IN  IF hit = {} THEN Missing ELSE d.items[CHOOSE i \in hit : TRUE].v

\* the document has the expected shape: an object whose department_employees
\* is a list of objects, each with a list of employee objects
WellShaped(p) ==
  /\ p.t = "obj"
  /\ LookUp(p, K_department_employees).t = "arr"
  /\ \A i \in 1..Len(LookUp(p, K_department_employees).xs) :
       LET b == LookUp(p, K_department_employees).xs[i]
       IN  /\ b.t = "obj"
           /\ LookUp(b, K_employees).t = "arr"
           /\ \A j \in 1..Len(LookUp(b, K_employees).xs) :
                LookUp(b, K_employees).xs[j].t = "obj"

RECURSIVE EmployeesOfBlocks(_)
EmployeesOfBlocks(blocks) ==
  IF blocks = <<>> THEN <<>>
  ELSE LookUp(Head(blocks), K_employees).xs \o EmployeesOfBlocks(Tail(blocks))

\* the employees of a well-shaped document in traversal order
EmployeesOf(p) == EmployeesOfBlocks(LookUp(p, K_department_employees).xs)

FieldKeys ==
  {K_contact_name, K_employee_position, K_office_number, K_email_address}

\* every field of every employee is a string, null or missing
Typed(p) ==
  /\ WellShaped(p)
  /\ \A i \in 1..Len(EmployeesOf(p)) : \A k \in FieldKeys :
       LookUp(EmployeesOf(p)[i], k).t \in {"missing", "null", "str"}

\* a normalized field: trimmed, empty when null or missing
Clean(v) == IF v.t = "str" THEN Strip(v.s) ELSE <<>>

IdentityTuple(emp) ==
  <<Clean(LookUp(emp, K_contact_name)), Clean(LookUp(emp, K_employee_position)),
    Clean(LookUp(emp, K_office_number)), Clean(LookUp(emp, K_email_address))>>

\* contact_name missing, null, empty or whitespace-only
Nameless(emp) ==
  /\ LookUp(emp, K_contact_name).t \in {"missing", "null", "str"}
  /\ Clean(LookUp(emp, K_contact_name)) = <<>>

\* the identity tuples of the named employees in traversal order
NamedTuples(p) ==
  LET named(emp) == ~Nameless(emp)
      emps == SelectSeq(EmployeesOf(p), named)
  IN  [i \in 1..Len(emps) |-> IdentityTuple(emps[i])]

FirstAt(T, x) == CHOOSE i \in 1..Len(T) : T[i] = x /\ \A j \in 1..(i - 1) : T[j] # x

\* C3: the returned list holds no two entries with the same identity tuple
\* (name, position, officeRaw, email); it holds exactly one entry for each
\* distinct tuple among the named employees, and the entries stand in the
\* order of the first occurrences of their tuples in the traversal.
C3_DedupFirstOccurrences ==
  ret # Unset =>
    /\ ret.ok =>
         \A i, j \in 1..Len(ret.v) : i < j => Key(ret.v[i]) # Key(ret.v[j])
    /\ Typed(arg) =>
         /\ ret.ok
         /\ LET T == NamedTuples(arg)
                R == [i \in 1..Len(ret.v) |-> Key(ret.v[i])]
            IN  /\ {R[i] : i \in 1..Len(R)} = {T[i] : i \in 1..Len(T)}
                /\ \A i, j \in 1..Len(R) :
                     i < j => FirstAt(T, R[i]) < FirstAt(T, R[j])

\* of three named employees the third repeats the first and is dropped; the
\* two kept differ in the raw office number alone and format alike
C3_Witness ==
  /\ pc = "return"
  /\ Typed(arg)
  /\ Len(NamedTuples(arg)) = 3
  /\ NamedTuples(arg)[3] = NamedTuples(arg)[1]
  /\ ret.ok
  /\ Len(ret.v) = 2
  /\ Key(ret.v[1]) = NamedTuples(arg)[1]
  /\ Key(ret.v[2]) = NamedTuples(arg)[2]
  /\ ret.v[1].office_raw # ret.v[2].office_raw
  /\ ret.v[1].office_fmt = ret.v[2].office_fmt
  /\ ret.v[1].name = ret.v[2].name

\* the document without its nameless employees
WithoutNameless(p) ==
  LET named(emp) == ~Nameless(emp)
      block(b) ==
        Dict([i \in 1..Len(b.items) |->
                IF b.items[i].k = K_employees
                THEN [k |-> K_employees,
                      v |-> List(SelectSeq(b.items[i].v.xs, named))]
                ELSE b.items[i]])
  IN  Dict([i \in 1..Len(p.items) |->
              IF p.items[i].k = K_department_employees
              THEN [k |-> K_department_employees,
                    v |-> List([j \in 1..Len(p.items[i].v.xs) |->
                                  block(p.items[i].v.xs[j])])]
              ELSE p.items[i]])

\* C4: every entry returned has a name that is not empty and has no leading
\* or trailing whitespace; an employee whose contact_name is missing, null,
\* empty or whitespace-only is dropped without raising and without effect
\* on the other employees: the call returns what it returns for the
\* document without that employee.
C4_NamelessDropped ==
  ret # Unset =>
    /\ ret.ok =>
         \A i \in 1..Len(ret.v) :
           ret.v[i].name # <<>> /\ Strip(ret.v[i].name) = ret.v[i].name
    /\ WellShaped(arg) => ret = ToEntries(WithoutNameless(arg))

\* C4 as Employee_List_Formatter.py alone meets it.
C4_NamelessDroppedMain ==
  script = MAIN => C4_NamelessDropped

\* a nameless employee with a number for office_number was dropped from
\* beside a named one by Employee_List_Formatter.py
C4_WitnessMain ==
  /\ script = MAIN
  /\ pc = "return"
  /\ WellShaped(arg)
  /\ Len(EmployeesOf(arg)) = 2
  /\ Nameless(EmployeesOf(arg)[1])
  /\ LookUp(EmployeesOf(arg)[1], K_office_number) = Num(5)
  /\ ret.ok
  /\ Len(ret.v) = 1

\* C8: when department_employees is absent, null or no sequence the call
\* raises nothing and returns the empty list; a block that is null, empty
\* or without an employees sequence contributes no entry and no error.
C8_IllShapedTopLevel ==
  (ret # Unset /\ arg.t = "obj") =>
    LET d == LookUp(arg, K_department_employees)
        hollow(b) == \/ b.t = "null"
                     \/ /\ b.t = "obj"
                        /\ LookUp(b, K_employees).t \in {"missing", "null"}
        solid(b) == ~hollow(b)
    IN  /\ d.t # "arr" => ret = Ok(<<>>)
        /\ d.t = "arr" =>
             ret = ToEntries(Payload(List(SelectSeq(d.xs, solid))))

\* C9: whatever JSON value each field of an employee object of a well-shaped
\* document holds, the call does not raise.
C9_TotalOverFieldValues ==
  (ret # Unset /\ WellShaped(arg)) => ret.ok

\* a document with string, null or missing fields only never raises
C9_TypedNeverRaises ==
  (ret # Unset /\ Typed(arg)) => ret.ok

(***************************************************************************)
(* What the claims about the rendered text speak of.                       *)
(***************************************************************************)
Render(es) ==
  IF script = MAIN THEN render_directory(es) ELSE render_directory_markdown(es)

\* C10: the deduplication step applied to a list that is already its result
\* returns the list unchanged, and rendering the list deduplicated once more
\* gives the same text.
C10_DedupIdempotent ==
  pc = "rededuped" =>
    /\ entries.v = ret.v
    /\ ret.v # <<>> => Render(entries.v) = Render(ret.v)

\* the call had dropped a duplicate and kept two entries; the second pass
\* left them as they were
C10_Witness ==
  /\ pc = "rededuped"
  /\ Typed(arg)
  /\ Len(NamedTuples(arg)) = 3
  /\ Len(ret.v) = 2
  /\ entries = Bound(ret.v)

\* the lines of a text: what stands between its newlines
SplitLines(s) ==
  LET nl == {i \in 1..Len(s) : s[i] = NL}
      start(k) == IF k = 1 THEN 1
                  ELSE 1 + CHOOSE i \in nl : Cardinality({j \in nl : j <= i}) = k - 1
      stop(k) == IF k = Cardinality(nl) + 1 THEN Len(s)
                 ELSE (CHOOSE i \in nl : Cardinality({j \in nl : j <= i}) = k) - 1
  IN  [k \in 1..(Cardinality(nl) + 1) |-> SubSeq(s, start(k), stop(k))]

HasNewline(s) == \E i \in 1..Len(s) : s[i] = NL

\* no field of any entry holds a newline of its own
SingleLineFields(es) ==
  \A i \in 1..Len(es) :
    ~HasNewline(es[i].name \o es[i].position \o es[i].office_fmt \o es[i].email)

\* the lines the claim gives one entry
ClaimedEntryLines(e) ==
  <<<<" ", " ", " ", " ">> \o e.name>>
  \o (IF e.position = <<>> THEN <<>> ELSE <<e.position>>)
  \o (IF e.office_fmt = <<>> THEN <<>>
      ELSE <<<<"O", "f", "f", "i", "c", "e", ":", " ">> \o e.office_fmt>>)
  \o (IF e.email = <<>> THEN <<>> ELSE <<<<"E", "m", "a", "i", "l", ":",
      " ">> \o e.email>>)
  \o << <<>> >>

RECURSIVE ClaimedLines(_)
ClaimedLines(es) ==
  IF es = <<>> THEN <<>>
  ELSE ClaimedEntryLines(Head(es)) \o ClaimedLines(Tail(es))

\* C5: after the header and its blank line the text holds, for each entry in
\* list order, the name after exactly four spaces, the position on a line of
\* its own iff it is not empty, "Office: <officeFormatted>" iff that is not
\* empty, "Email: <email>" iff that is not empty, then one blank line; an
\* empty field gives no line at all.  (The blank line after the last entry
\* is the text's final newline.)
C5_PerEntryLines ==
  (pc = "return" /\ SingleLineFields(arg)) =>
    SplitLines(ret.v) = <<HeaderLine, <<>>>> \o ClaimedLines(arg)

\* C5 as Employee_List_Formatter.py alone meets it.
C5_PerEntryLinesMain ==
  script = MAIN => C5_PerEntryLines

\* Employee_List_Formatter.py rendered an entry without position, with an
\* office number: the Office line follows the name line
C5_WitnessMain ==
  /\ script = MAIN
  /\ pc = "return"
  /\ Len(arg) = 2
  /\ arg[1].position = <<>>
  /\ arg[1].office_fmt = <<"(", "5", "5", "5", ")", " ", "1", "2", "3", "-",
      "4", "5", "6", "7">>
  /\ SplitLines(ret.v)[3] = <<" ", " ", " ", " ", "A">>
  /\ SplitLines(ret.v)[4] = <<"O", "f", "f", "i", "c", "e", ":", " ", "(", "5",
      "5", "5", ")", " ", "1", "2", "3", "-", "4", "5", "6", "7">>

\* C6: the text begins with the header line followed by exactly one blank
\* line, holds no run of three or more newlines, and ends with exactly one
\* newline with no other whitespace before it.
C6_TextShape ==
  pc = "return" =>
    LET out == ret.v
        h == Len(HeaderLine)
        n == Len(out)
    IN  /\ n > h + 3
        /\ SubSeq(out, 1, h + 2) = HeaderLine \o <<NL, NL>>
        /\ out[h + 3] # NL
        /\ \A i \in 1..(n - 2) :
             ~(out[i] = NL /\ out[i + 1] = NL /\ out[i + 2] = NL)
        /\ out[n] = NL
        /\ out[n - 1] \notin SpaceChars

\* two entries were rendered whose fields hold runs of newlines, the first
\* without position, office number and email
C6_Witness ==
  /\ pc = "return"
  /\ Len(arg) = 2
  /\ arg[1].name = <<"A", "\n", "\n", "\n", "\n", "B">>
  /\ arg[1].position = <<>> /\ arg[1].office_fmt = <<>> /\ arg[1].email = <<>>
  /\ arg[2].email = <<"e", "\n", "\n", "\n", "f">>
  /\ ret.v[Len(ret.v)] = NL

(***************************************************************************)
(* Spec: one run of a script, from the "Generate Directory" button to its  *)
(* end, on a raw text and the two checkboxes.                              *)
(***************************************************************************)
Jane ==
  Employee(Str(<<"J", "a", "n", "e", " ", "D", "o", "e">>), Str(<<"M", "a",
      "n", "a", "g", "e", "r">>), Str(<<"5", "5", "5", "-", "1", "2", "3",
      "-", "4", "5", "6", "7">>),
           Str(<<"j", "a", "n", "e", "@", "x", ".", "c", "o", "m">>))

T_NotJson == <<"n", "o", "t", " ", "j", "s", "o", "n">>
T_Empty == <<>>
T_Cut == <<"{", "\"", "d", "e", "p", "a", "r", "t", "m", "e", "n", "t", "_",
    "e", "m", "p", "l", "o", "y", "e", "e", "s", "\"", ":", "[">>
T_String == <<"\"", "n", "o", "t", " ", "j", "s", "o", "n", "\"">>
T_NoKey == <<"{", "}">>
T_Array == <<"[", "]">>
T_Number == <<"{", "\"", "d", "e", "p", "a", "r", "t", "m", "e", "n", "t",
    "_", "e", "m", "p", "l", "o", "y", "e", "e", "s", "\"", ":", " ", "5",
    "}">>
T_Nameless ==
  <<"{", "\"", "d", "e", "p", "a", "r", "t", "m", "e", "n", "t", "_", "e",
      "m", "p", "l", "o", "y", "e", "e", "s", "\"", ":", "[", "{", "\"", "e",
      "m", "p", "l", "o", "y", "e", "e", "s", "\"", ":", "[", "{", "\"", "c",
      "o", "n", "t", "a", "c", "t", "_", "n", "a", "m", "e", "\"", ":", "\"",
      " ", "\"", "}", "]", "}", "]", "}">>
T_Jane ==
  <<"{", "\"", "d", "e", "p", "a", "r", "t", "m", "e", "n", "t", "_", "e",
      "m", "p", "l", "o", "y", "e", "e", "s", "\"", ":", "[", "{", "\"", "e",
      "m", "p", "l", "o", "y", "e", "e", "s", "\"", ":", "[", "{", "\"", "c",
      "o", "n", "t", "a", "c", "t", "_", "n", "a", "m", "e", "\"", ":", "\"",
      "J", "a", "n", "e", " ", "D", "o", "e", "\"", ",", "\"", "e", "m", "p",
      "l", "o", "y", "e", "e", "_", "p", "o", "s", "i", "t", "i", "o", "n",
      "\"", ":", "\"", "M", "a", "n", "a", "g", "e", "r", "\"", ",", "\"",
      "o", "f", "f", "i", "c", "e", "_", "n", "u", "m", "b", "e", "r", "\"",
      ":", "\"", "5", "5", "5", "-", "1", "2", "3", "-", "4", "5", "6", "7",
      "\"", ",", "\"", "e", "m", "a", "i", "l", "_", "a", "d", "d", "r", "e",
      "s", "s", "\"", ":", "\"", "j", "a", "n", "e", "@", "x", ".", "c", "o",
      "m", "\"", "}", "]", "}", "]", "}">>
T_JaneTwice ==
  <<"{", "\"", "d", "e", "p", "a", "r", "t", "m", "e", "n", "t", "_", "e",
      "m", "p", "l", "o", "y", "e", "e", "s", "\"", ":", "[", "{", "\"", "e",
      "m", "p", "l", "o", "y", "e", "e", "s", "\"", ":", "[", "{", "\"", "c",
      "o", "n", "t", "a", "c", "t", "_", "n", "a", "m", "e", "\"", ":", "\"",
      "J", "a", "n", "e", " ", "D", "o", "e", "\"", ",", "\"", "e", "m", "p",
      "l", "o", "y", "e", "e", "_", "p", "o", "s", "i", "t", "i", "o", "n",
      "\"", ":", "\"", "M", "a", "n", "a", "g", "e", "r", "\"", ",", "\"",
      "o", "f", "f", "i", "c", "e", "_", "n", "u", "m", "b", "e", "r", "\"",
      ":", "\"", "5", "5", "5", "-", "1", "2", "3", "-", "4", "5", "6", "7",
      "\"", ",", "\"", "e", "m", "a", "i", "l", "_", "a", "d", "d", "r", "e",
      "s", "s", "\"", ":", "\"", "j", "a", "n", "e", "@", "x", ".", "c", "o",
      "m", "\"", "}", "]", "}", ",", "{", "\"", "e", "m", "p", "l", "o", "y",
      "e", "e", "s", "\"", ":", "[", "{", "\"", "c", "o", "n", "t", "a", "c",
      "t", "_", "n", "a", "m", "e", "\"", ":", "\"", "J", "a", "n", "e", " ",
      "D", "o", "e", "\"", ",", "\"", "e", "m", "p", "l", "o", "y", "e", "e",
      "_", "p", "o", "s", "i", "t", "i", "o", "n", "\"", ":", "\"", "M", "a",
      "n", "a", "g", "e", "r", "\"", ",", "\"", "o", "f", "f", "i", "c", "e",
      "_", "n", "u", "m", "b", "e", "r", "\"", ":", "\"", "5", "5", "5", "-",
      "1", "2", "3", "-", "4", "5", "6", "7", "\"", ",", "\"", "e", "m", "a",
      "i", "l", "_", "a", "d", "d", "r", "e", "s", "s", "\"", ":", "\"", "j",
      "a", "n", "e", "@", "x", ".", "c", "o", "m", "\"", "}", "]", "}", "]",
      "}">>

RawTexts ==
  { T_NotJson, T_Empty, T_Cut, T_String, T_NoKey, T_Array, T_Number,
    T_Nameless, T_Jane, T_JaneTwice }

JSONDecodeError(msg) == [ok |-> FALSE, exc |-> "JSONDecodeError", msg |-> msg]

\* json.loads on the raw texts of the model
json_loads(text) ==
  CASE text = T_NotJson ->
         JSONDecodeError(<<"E", "x", "p", "e", "c", "t", "i", "n", "g", " ",
             "v", "a", "l", "u", "e", ":", " ", "l", "i", "n", "e", " ", "1",
             " ", "c", "o", "l", "u", "m", "n", " ", "1", " ", "(", "c", "h",
             "a", "r", " ", "0", ")">>)
    [] text = T_Empty ->
         JSONDecodeError(<<"E", "x", "p", "e", "c", "t", "i", "n", "g", " ",
             "v", "a", "l", "u", "e", ":", " ", "l", "i", "n", "e", " ", "1",
             " ", "c", "o", "l", "u", "m", "n", " ", "1", " ", "(", "c", "h",
             "a", "r", " ", "0", ")">>)
    [] text = T_Cut ->
         JSONDecodeError(<<"E", "x", "p", "e", "c", "t", "i", "n", "g", " ",
             "v", "a", "l", "u", "e", ":", " ", "l", "i", "n", "e", " ", "1",
             " ", "c", "o", "l", "u", "m", "n", " ", "2", "6", " ", "(", "c",
             "h", "a", "r", " ", "2", "5", ")">>)
    [] text = T_String -> Ok(Str(<<"n", "o", "t", " ", "j", "s", "o", "n">>))
    [] text = T_NoKey -> Ok(Dict(<<>>))
    [] text = T_Array -> Ok(List(<<>>))
    [] text = T_Number -> Ok(Payload(Num(5)))
    [] text = T_Nameless ->
         Ok(Payload(List(<<Block(List(<<Dict(Field(K_contact_name,
                                                     Str(<<" ">>)))>>))>>)))
    [] text = T_Jane -> Ok(Payload(List(<<Block(List(<<Jane>>))>>)))
    [] text = T_JaneTwice ->
         Ok(Payload(List(<<Block(List(<<Jane>>)), Block(List(<<Jane>>))>>)))

Init ==
  /\ script \in Scripts
  /\ pc = "button"
  /\ raw \in RawTexts
  /\ pretty \in BOOLEAN
  /\ show_table \in BOOLEAN
  /\ arg = Unset /\ ret = Unset
  /\ payload = Unset /\ entries = Unset /\ directory_md = Unset
  /\ ui = <<>>

\* st.button(...) is False: the run goes on after the handler
NotClicked ==
  /\ pc = "button"
  /\ pc' = "footer"
  /\ UNCHANGED <<script, arg, ret, raw, pretty, show_table, payload, entries,
                 directory_md, ui>>

\* st.error is not followed by st.stop(): the run goes on
Parse_without_stop ==
  /\ pc = "button"
  /\ LET r == json_loads(raw)
     IN  IF r.ok
         THEN payload' = r.v /\ ui' = ui
         ELSE /\ ui' = Append(ui, [w |-> "error",
                                   text |-> <<"I", "n", "v", "a", "l", "i",
                                       "d", " ", "J", "S", "O", "N", ":",
                                       " ">> \o r.msg])
              /\ payload' = payload
  /\ pc' = "pretty"
  /\ UNCHANGED <<script, arg, ret, raw, pretty, show_table, entries,
                 directory_md>>

\* try: payload = json.loads(raw) / except: st.error(...); st.stop()
Parse ==
  /\ pc = "button"
  /\ LET r == json_loads(raw)
     IN  IF r.ok
         THEN payload' = r.v /\ pc' = "pretty" /\ ui' = ui
         ELSE /\ ui' = Append(ui, [w |-> "error",
                                   text |-> <<"I", "n", "v", "a", "l", "i",
                                       "d", " ", "J", "S", "O", "N", ":",
                                       " ">> \o r.msg])
              /\ pc' = "stopped"
              /\ payload' = payload
  /\ UNCHANGED <<script, arg, ret, raw, pretty, show_table, entries,
                 directory_md>>

\* if pretty: st.subheader(...); st.code(json.dumps(payload, indent=2))
PrettyPrint ==
  /\ pc = "pretty"
  /\ ui' = IF pretty
           THEN ui \o <<[w |-> "subheader", text |-> "Parsed JSON (pretty)"],
                        [w |-> "code", language |-> "json", of |-> payload]>>
           ELSE ui
  /\ pc' = "extract"
  /\ UNCHANGED <<script, arg, ret, raw, pretty, show_table, payload, entries,
                 directory_md>>

\* entries = to_entries(payload): an exception is caught nowhere and ends
\* the run
Extract ==
  /\ pc = "extract"
  /\ \E r \in {IF script = MAIN THEN to_entries(payload)
               ELSE to_directory_entries(payload)} :
       IF r.ok THEN entries' = Bound(r.v) /\ pc' = "check"
       ELSE entries' = entries /\ pc' = "raised"
  /\ UNCHANGED <<script, arg, ret, raw, pretty, show_table, payload,
                 directory_md, ui>>

\* if not entries: st.warning(...); st.stop()  (the text without the
\* backquotes it has around department_employees)
NoData ==
  /\ pc = "check"
  /\ entries.v = <<>>
  /\ ui' = Append(ui, [w |-> "warning",
                       text |-> "No employees found under department_employees."])
  /\ pc' = "stopped"
  /\ UNCHANGED <<script, arg, ret, raw, pretty, show_table, payload, entries,
                 directory_md>>

\* directory_md = render_directory(entries)
RenderDirectory ==
  /\ pc = "check"
  /\ entries.v # <<>>
  /\ directory_md' = Bound(IF script = MAIN THEN render_directory(entries.v)
                           ELSE render_directory_markdown(entries.v))
  /\ pc' = "output"
  /\ UNCHANGED <<script, arg, ret, raw, pretty, show_table, payload, entries,
                 ui>>

\* st.subheader, st.code(directory_md), st.download_button(...)
Output ==
  /\ pc = "output"
  /\ ui' = ui \o <<[w |-> "subheader", text |-> "Directory Output"],
                   [w |-> "code", language |-> "markdown",
                    of |-> directory_md.v],
                   [w |-> "download_button", data |-> directory_md.v,
                    file_name |-> "directory.md", mime |-> "text/markdown"]>>
  /\ pc' = "table"
  /\ UNCHANGED <<script, arg, ret, raw, pretty, show_table, payload, entries,
                 directory_md>>

\* if show_table: st.subheader(...); st.dataframe([...])
Table ==
  /\ pc = "table"
  /\ ui' = IF show_table
           THEN ui \o <<[w |-> "subheader", text |-> "Parsed Employees"],
                        [w |-> "dataframe",
                         rows |-> [i \in 1..Len(entries.v) |->
                                     [Name |-> entries.v[i].name,
                                      Position |-> entries.v[i].position,
                                      Office |-> entries.v[i].office_fmt,
                                      Email |-> entries.v[i].email]]]>>
           ELSE ui
  /\ pc' = "footer"
  /\ UNCHANGED <<script, arg, ret, raw, pretty, show_table, payload, entries,
                 directory_md>>

\* the st.markdown after the handler
Footer ==
  /\ pc = "footer"
  /\ ui' = Append(ui, [w |-> "markdown"])
  /\ pc' = "done"
  /\ UNCHANGED <<script, arg, ret, raw, pretty, show_table, payload, entries,
                 directory_md>>

Next ==
  \/ NotClicked
  \/ Parse
  \/ PrettyPrint
  \/ Extract
  \/ NoData
  \/ RenderDirectory
  \/ Output
  \/ Table
  \/ Footer

Spec == Init /\ [][Next]_vars

Shown(w) == {i \in 1..Len(ui) : ui[i].w = w}

\* C7: a raw text that is no JSON ends the run in the error with a parser
\* message that is not empty, with neither extraction nor rendering done;
\* extraction is done only on the parsed document; the renderer is called
\* only on a list that extraction returned and that is not empty; an empty
\* list ends the run in the "no data" warning, with no renderer call and no
\* download, and of error, warning and download a run shows at most one.
C7_Gating ==
  /\ ~json_loads(raw).ok =>
       /\ payload = Unset /\ entries = Unset /\ directory_md = Unset
       /\ pc \in {"button", "stopped", "footer", "done"}
       /\ pc = "stopped" =>
            /\ Len(ui) = 1
            /\ ui[1].w = "error"
            /\ SubSeq(ui[1].text, 1, 14) = <<"I", "n", "v", "a", "l", "i",
                "d", " ", "J", "S", "O", "N", ":", " ">>
            /\ Len(ui[1].text) > 14
  /\ (entries # Unset \/ pc \in {"check", "raised"}) =>
       json_loads(raw) = Ok(payload)
  /\ entries # Unset => Ok(entries.v) = ToEntries(payload)
  /\ directory_md # Unset =>
       /\ entries # Unset
       /\ entries.v # <<>>
       /\ directory_md.v = Render(entries.v)
  /\ entries = Bound(<<>>) =>
       /\ directory_md = Unset
       /\ pc \in {"check", "stopped"}
       /\ Shown("download_button") = {}
       /\ Shown("error") = {}
       /\ pc = "stopped" => ui[Len(ui)].w = "warning"
  /\ Shown("download_button") # {} =>
       /\ directory_md # Unset
       /\ \A i \in Shown("download_button") : ui[i].data = directory_md.v
  /\ Cardinality({w \in {"error", "warning", "download_button"} :
                    Shown(w) # {}}) <= 1

\* a document without a named employee was parsed, shown pretty-printed and
\* extracted; the run stopped at the warning
C7_Witness ==
  /\ raw = T_Nameless
  /\ pretty
  /\ pc = "stopped"
  /\ entries = Bound(<<>>)
  /\ Len(ui) = 3
  /\ ui[3].w = "warning"
  /\ directory_md = Unset

\* a text that is no JSON stopped the run at the error
C7_WitnessMalformed ==
  /\ raw = T_Cut
  /\ pc = "stopped"
  /\ Shown("error") = {1}
  /\ payload = Unset

====
